---- MODULE Spec2Model ----
(***************************************************************************)
(* Model of the Aviasales test harness:                                    *)
(*   - BaseApiClient._request / wait_for_ok   (src/tests/api_tests.py)     *)
(*   - the waits and actions of BasePage      (src/BasePage.py)            *)
(*   - SuggestApiClient.extract_city_names, the past-date flight search    *)
(*     test and the driver fixture, each under its own specification       *)
(* The harness is single-threaded: one operation is in progress at a time. *)
(* The HTTP transport (requests.Session.request), the report sink          *)
(* (allure.attach), the UI surface (driver.find_element) and the polled    *)
(* condition are the environment: each of their calls picks its outcome    *)
(* nondeterministically.                                                   *)
(***************************************************************************)
EXTENDS Integers, Sequences, FiniteSets

(***************************************************************************)
(* Bounds of the model.                                                    *)
(***************************************************************************)
\* largest retry budget passed to _request
MaxRetry == 3
\* largest timeout (in clock ticks) passed to a wait
MaxTimeout == 3
\* longest time (in clock ticks) one poll of a condition may take
MaxPollDur == 2
\* largest number of items in a places response
MaxItems == 2
\* largest number of tests of one session that request the driver fixture
MaxTests == 3

(***************************************************************************)
(* Program constants.                                                      *)
(***************************************************************************)
\* Config.RETRY_COUNT, the default of _request's retry parameter
RETRY_COUNT == 3
\* WebDriverWait's default poll_frequency (the sleep between two polls), one
\* clock tick of the model
PollInterval == 1

\* range(retry) is empty for retry <= 0: such budgets are inputs too
RetryVals == (0 - 1)..MaxRetry
TimeoutVals == (0 - 1)..MaxTimeout

(***************************************************************************)
(* The environment's values.                                               *)
(***************************************************************************)
\* exceptions session.request raises on a transport fault
TransportFaults == {"ConnectionError", "Timeout"}
\* the exception allure.attach raises when the sink fails
SinkError == "SinkError"
\* status codes the transport may answer
StatusCodes == {200, 204, 400, 404}
\* response texts the transport may answer
Bodies == {"{\"a\":1}", "[]", "<html>", ""}
Responses == [status : StatusCodes, body : Bodies]
NoResp == [status |-> 0, body |-> ""]

\* response.json(): the decoded body, or the decoder's error for a text that
\* is not JSON
\* (a dict is its keys and, as JSON texts, their values)
NoTickets == "{\"data\":[]}"
Tickets400 == "{\"data\":[{\"price\":400}]}"
Tickets99 == "{\"data\":[{\"price\":99}]}"
JsonDecodable(body) == body \in {"{\"a\":1}", "[]", NoTickets, Tickets400, Tickets99}
JsonDecode(body) ==
    CASE body = "{\"a\":1}" -> [kind |-> "dict", keys |-> <<"a">>, vals |-> <<"1">>]
      [] body = "[]" -> [kind |-> "list", keys |-> <<>>, vals |-> <<>>]
      [] body = NoTickets -> [kind |-> "dict", keys |-> <<"data">>, vals |-> <<"[]">>]
      [] body = Tickets400 ->
             [kind |-> "dict", keys |-> <<"data">>, vals |-> <<"[{\"price\":400}]">>]
      [] body = Tickets99 ->
             [kind |-> "dict", keys |-> <<"data">>, vals |-> <<"[{\"price\":99}]">>]
      [] OTHER -> [kind |-> "JSONDecodeError", keys |-> <<>>, vals |-> <<>>]

VARIABLES
    pc,         \* "idle", "_request", "returned", "polling", "done"
    op,         \* the operation called, "none" before any call
    retry,      \* _request: the retry parameter
    attempt,    \* _request: the loop variable
    response,   \* _request: the local variable response (NoResp while unset)
    result,     \* _request: what the call gave its caller
    calls,      \* history: number of session.request calls made
    log,        \* history: per attempt, the transport's and the sink's outcome
    firstResp,  \* history: the first response the transport returned
    attached,   \* the sink: the attachments made, <<attempt, name>>
    okResult,   \* wait_for_ok: what the call gave its caller
    client,     \* BaseApiClient: base_url, token and the session's headers
    call,       \* _request: the parameters url and headers, and the local full_url
    sent,       \* history: the url and headers of every session.request call
    timeout,    \* wait: the timeout parameter
    end_time,   \* WebDriverWait.until: the deadline, fixed when the wait starts
    now,        \* the monotonic clock, in ticks
    surface,    \* the UI surface: the located element is "absent", "present"
                \* (in the DOM, not clickable) or "clickable" (visible and enabled)
    polls,      \* history: the outcome of every poll of the condition
    sleeps,     \* history: number of sleeps between polls
    acts,       \* history: what was done to the located element
    elem,       \* history: the outcome of the call made on the element, "none" if none
    response_json, \* extract_*: the parameter, the decoded places response
    cities,     \* extract_city_names: the list returned
    codes,      \* extract_iata_codes: the list returned
    fixture,    \* driver fixture: its position in the current test, and the test's run
    drivers,    \* history: every driver created, with the number of its quit() calls
    verdict,    \* test_flight_search_past_date: how the test ended
    waitResult  \* wait: what the call gave its caller

reqVars == <<retry, attempt, response, result, calls, log, firstResp,
             attached, okResult, client, call, sent>>
waitVars == <<timeout, end_time, now, surface, polls, sleeps, acts, elem,
             waitResult>>
extractVars == <<response_json, cities, codes>>
testVars == <<verdict, fixture, drivers>>
vars == <<pc, op, reqVars, waitVars, extractVars, testVars>>

NoResult == [kind |-> "none", attempts |-> 0, cause |-> "", resp |-> NoResp]
NoOk == [kind |-> "none", status |-> 0, body |-> "", json |-> JsonDecode("")]
NoWaitResult == [k |-> "none", v |-> ""]

(***************************************************************************)
(* Strings that the code takes apart are sequences of chunks, the first    *)
(* chunk holding the first four characters: "https://h/x" is               *)
(* <<"http", "s://h/x">>, "/v2" is <<"/v2">>, "" is <<>>.  Concatenation   *)
(* is \o.                                                                  *)
(***************************************************************************)
\* Config.SUGGEST_API_URL
SUGGEST_API_URL == <<"http", "s://autocomplete.travelpayouts.com/places2">>
\* Config.FLIGHT_API_URL
FLIGHT_API_URL == <<"http", "s://api.travelpayouts.com/v1/flights/search">>
\* Config.TOKEN
TOKEN == "yourapikeyhere"

\* the token argument of BaseApiClient.__init__: None, an empty string, a token
Tokens == {"None", "''", TOKEN}
\* the url argument of _request: "", a path, an absolute URL, and a relative
\* path whose first characters are "http"
Urls == {<<>>, <<"/v2">>, <<"http", "s://other.example/x">>, <<"http", "bin/get">>}
\* the headers argument of _request: None, or a dict of name-value pairs
\* (a value is a sequence of words, <<"None">> for None)
NoHeaders == [given |-> FALSE, items |-> {}]
HeaderArgs ==
    {NoHeaders,
     [given |-> TRUE, items |-> {<<"Accept", <<"application/json">>>>}],
     [given |-> TRUE, items |-> {<<"Authorization", <<"Bearer", "other">>>>}],
     [given |-> TRUE, items |-> {<<"Authorization", <<"None">>>>}]}


\* if token:
TokenGiven(t) == t \notin {"None", "''"}

\* BaseApiClient.__init__: the session's headers get Authorization: Token <token>
BaseApiClient(b, t) ==
    [base_url |-> b, token |-> t,
     headers |-> IF TokenGiven(t) THEN {<<"Authorization", <<"Token", t>>>>} ELSE {}]

\* SuggestApiClient() and FlightSearchApiClient()
SuggestApiClient == BaseApiClient(SUGGEST_API_URL, "None")
FlightSearchApiClient == BaseApiClient(FLIGHT_API_URL, TOKEN)
\* the clients a test may construct
Clients == {SuggestApiClient, FlightSearchApiClient, BaseApiClient(FLIGHT_API_URL, "''")}

\* url.startswith("http")
StartsWithHttp(u) == Len(u) >= 1 /\ u[1] = "http"

\* full_url = url if url.startswith("http") else f"{self.base_url}{url}"
FullUrl(b, u) == IF StartsWithHttp(u) THEN u ELSE b \o u

\* mutant: headers given with the call replace the session's headers
MergeHeaders_Replace(sh, h) == IF h.given THEN h.items ELSE sh

\* session.request(headers=headers): the headers sent are the session's,
\* updated with the call's; an entry the call sets to None is removed
MergeHeaders(sh, h) ==
    IF ~h.given THEN sh
    ELSE {p \in sh : p[1] \notin {q[1] : q \in h.items}}
             \cup {q \in h.items : q[2] # <<"None">>}

NoClient == [base_url |-> <<>>, token |-> "None", headers |-> {}]
NoCall == [url |-> <<>>, headers |-> NoHeaders, full_url |-> <<>>]

NoVerdict == [variant |-> "none", outcome |-> "none", message |-> <<>>]

\* the driver fixture before the first test requests it
NoFixture == [stage |-> "idle", tests |-> 0, browser |-> "none", created |-> FALSE,
              raised |-> "none", test |-> "none"]

InitHarness ==
    /\ pc = "idle"
    /\ op = "none"
    /\ retry = 0
    /\ attempt = 0
    /\ response = NoResp
    /\ result = NoResult
    /\ calls = 0
    /\ log = <<>>
    /\ firstResp = NoResp
    /\ attached = <<>>
    /\ okResult = NoOk
    /\ client = NoClient
    /\ call = NoCall
    /\ sent = {}
    /\ timeout = 0
    /\ end_time = 0
    /\ now = 0
    /\ surface = "absent"
    /\ polls = <<>>
    /\ sleeps = 0
    /\ acts = <<>>
    /\ elem = "none"
    /\ waitResult = NoWaitResult
    /\ cities = <<>>
    /\ codes = <<>>
    /\ verdict = NoVerdict
    /\ fixture = NoFixture
    /\ drivers = <<>>

Init ==
    /\ InitHarness
    /\ response_json = <<>>

(***************************************************************************)
(* BaseApiClient._request                                                  *)
(***************************************************************************)
\* a call of _request as operation o on a client of cs, with url, headers
\* and retry drawn from us, hs and ns: full_url is computed and the for loop
\* is entered
CallRequest(o, cs, us, hs, ns) ==
    /\ pc = "idle"
    /\ \E n \in ns : retry' = n
    /\ \E c \in cs : client' = c
    /\ \E u \in us, h \in hs :
         call' = [url |-> u, headers |-> h, full_url |-> FullUrl(client'.base_url, u)]
    /\ pc' = "_request"
    /\ op' = o
    /\ attempt' = 0
    /\ UNCHANGED <<response, result, calls, log, firstResp, attached, okResult,
                   sent>>
    /\ UNCHANGED <<waitVars, extractVars, testVars>>

\* _request as the repository's clients call it: self._request(method, "",
\* params=... or json=...), with any retry budget
Call_request ==
    CallRequest("_request", {SuggestApiClient, FlightSearchApiClient}, {<<>>},
                {NoHeaders}, RetryVals)

\* _request with any url and headers, on any client
Call_request_any == CallRequest("_request", Clients, Urls, HeaderArgs, RetryVals)

\* the request self.session.request is given in this call
Sent == [url |-> call.full_url, headers |-> MergeHeaders(client.headers, call.headers)]

\* return response
Returned(r) == [kind |-> "response", attempts |-> 0, cause |-> "", resp |-> r]

\* mutant: the error reports the loop index and the first fault's kind
RequestFailed_IndexNoCause(n, e) ==
    [kind |-> "RequestFailed", attempts |-> n - 1, cause |-> "ConnectionError",
     resp |-> NoResp]

\* raise AssertionError(f"... {retry} попыток: {e}")
RequestFailed(n, e) ==
    [kind |-> "RequestFailed", attempts |-> n, cause |-> e, resp |-> NoResp]

\* raise AssertionError("Не удалось выполнить запрос")
GenericFailure ==
    [kind |-> "GenericFailure", attempts |-> 0, cause |-> "", resp |-> NoResp]

\* mutant: the last attempt is compared with the budget itself
IsLastAttempt_OffByOne(a, n) == a = n

\* if attempt == retry - 1
IsLastAttempt(a, n) == a = n - 1

\* except Exception as e: raise on the last attempt, else go round the loop
Except(e) ==
    IF IsLastAttempt(attempt, retry)
    THEN /\ result' = RequestFailed(retry, e)
         /\ pc' = "done"
         /\ attempt' = attempt
    ELSE /\ result' = result
         /\ pc' = pc
         /\ attempt' = attempt + 1

\* the two allure.attach calls of one attempt: "ok", or the one that raised
SinkOutcomes == {"ok", "fail1", "fail2"}
Attachments(a, s) ==
    CASE s = "ok" -> <<<<a, "Request">>, <<a, "Response">>>>
      [] s = "fail2" -> <<<<a, "Request">>>>
      [] OTHER -> <<>>

\* one iteration of the loop in which session.request raises e
AttemptFault ==
    /\ pc = "_request"
    /\ attempt < retry
    /\ \E e \in TransportFaults :
         /\ calls' = calls + 1
         /\ log' = Append(log, [t |-> "fault", cause |-> e, sink |-> "none"])
         /\ Except(e)
    /\ sent' = sent \cup {Sent}
    /\ UNCHANGED <<op, retry, response, firstResp, attached, okResult, client, call>>
    /\ UNCHANGED <<waitVars, extractVars, testVars>>

\* one iteration of the loop in which session.request returns a response of rs
AttemptResponseOf(rs) ==
    /\ pc = "_request"
    /\ attempt < retry
    /\ \E r \in rs, s \in SinkOutcomes :
         /\ calls' = calls + 1
         /\ response' = r
         /\ firstResp' = IF firstResp = NoResp THEN r ELSE firstResp
         /\ log' = Append(log, [t |-> "resp", cause |-> "", sink |-> s])
         /\ attached' = attached \o Attachments(attempt, s)
         /\ IF s = "ok"
            THEN /\ result' = Returned(r)
                 /\ pc' = "returned"
                 /\ attempt' = attempt
            ELSE Except(SinkError)
    /\ sent' = sent \cup {Sent}
    /\ UNCHANGED <<op, retry, okResult, client, call>>
    /\ UNCHANGED <<waitVars, extractVars, testVars>>

AttemptResponse == AttemptResponseOf(Responses)

\* the transport's answers in the runs that vary the url and the headers
FewResponses == {[status |-> 200, body |-> "[]"], [status |-> 400, body |-> "<html>"]}
AttemptResponse_few == AttemptResponseOf(FewResponses)

\* the loop ended without return or raise: the raise after the loop
LoopExhausted ==
    /\ pc = "_request"
    /\ attempt >= retry
    /\ result' = GenericFailure
    /\ pc' = "done"
    /\ UNCHANGED <<op, retry, attempt, response, calls, log, firstResp,
                   attached, okResult, client, call, sent>>
    /\ UNCHANGED <<waitVars, extractVars, testVars>>

(***************************************************************************)
(* BaseApiClient.wait_for_ok, called on the response _request returned     *)
(***************************************************************************)
\* mutant: every status below 400 passes the assertion
StatusOk_Below400(r) == r.status < 400

\* assert response.status_code == 200
StatusOk(r) == r.status = 200

wait_for_ok(r) ==
    IF ~StatusOk(r)
    THEN [kind |-> "AssertionError", status |-> r.status, body |-> r.body,
          json |-> JsonDecode("")]
    ELSE IF JsonDecodable(r.body)
    THEN [kind |-> "return", status |-> 0, body |-> "", json |-> JsonDecode(r.body)]
    ELSE [kind |-> "JSONDecodeError", status |-> 0, body |-> "",
          json |-> JsonDecode(r.body)]

Call_wait_for_ok ==
    /\ pc = "returned"
    /\ okResult' = wait_for_ok(result.resp)
    /\ pc' = "done"
    /\ UNCHANGED <<op, retry, attempt, response, result, calls, log, firstResp,
                   attached, client, call, sent>>
    /\ UNCHANGED <<waitVars, extractVars, testVars>>

(***************************************************************************)
(* The wait engine: WebDriverWait(driver, timeout).until(method), as       *)
(* BasePage.is_element_present and BasePage.wait_for_result use it.        *)
(* until() fixes end_time = monotonic() + timeout, then loops: call the    *)
(* method; return its value if truthy; swallow an ignored exception        *)
(* (NoSuchElementException); stop with TimeoutException once the clock is  *)
(* past end_time; otherwise sleep one poll interval and poll again.  Any   *)
(* other exception of the method leaves until() as it is.  A poll takes at *)
(* least one clock tick.                                                   *)
(***************************************************************************)
\* values a polled condition may produce (Python literals)
CondValues == {"None", "False", "0", "[]", "'a'", "'b'"}
\* exceptions a poll may raise
PollExceptions == {"NoSuchElementException", "WebDriverException"}
\* WebDriverWait's default ignored_exceptions
IgnoredExceptions == {"NoSuchElementException"}

PollOutcomes ==
    [k : {"value"}, v : CondValues \cup {"WebElement"}]
        \cup [k : {"raise"}, v : PollExceptions]

\* mutant: everything but None passes the truth test
PyBool_NotNone(v) == v # "None"

\* Python's truth value of v: `if value:`
PyBool(v) == v \notin {"None", "False", "0", "[]"}

\* mutant: a timeout below one poll interval is raised to it
EndTime_AtLeastOnePoll(t, to) == t + (IF to < PollInterval THEN PollInterval ELSE to)

\* end_time = time.monotonic() + self._timeout
EndTime(t, to) == t + to

\* if time.monotonic() > end_time: break
Expired(t) == t > end_time

\* one pass of until()'s loop on poll outcome o, the clock reading t after the
\* poll: what until() does next
Until(o, t) ==
    IF o.k = "value" /\ PyBool(o.v) THEN [k |-> "return", v |-> o.v]
    ELSE IF o.k = "raise" /\ o.v \notin IgnoredExceptions
    THEN [k |-> "raise", v |-> o.v]
    ELSE IF Expired(t) THEN [k |-> "raise", v |-> "TimeoutException"]
    ELSE [k |-> "sleep", v |-> ""]

\* is_element_present: return True after until(); except TimeoutException:
\* return False; any other exception passes through
is_element_present(u) ==
    IF u.k = "return" THEN [k |-> "return", v |-> "True"]
    ELSE IF u.v = "TimeoutException" THEN [k |-> "return", v |-> "False"]
    ELSE u

\* wait_for_result: return until(lambda _: condition())
wait_for_result(u) == u

\* the states of the located element on the page
Surfaces == {"absent", "present", "clickable"}

\* the operations that wait with self.wait, WebDriverWait(driver, Config.EXPLICIT_WAIT)
SelfWaitOps == {"find_element", "find_clickable", "click", "send_keys",
                "get_text", "is_search_button_enabled"}
\* the operations that poll EC.element_to_be_clickable(locator)
ClickableOps == {"find_clickable", "click", "is_search_button_enabled"}
\* the operations that poll EC.presence_of_element_located(locator)
PresenceOps == {"is_element_present", "find_element", "send_keys", "get_text"}

\* the outcomes of one poll.  EC.presence_of_element_located(locator) calls
\* driver.find_element; EC.element_to_be_clickable(locator) also wants the
\* element visible and enabled and gives False otherwise; the lambda calls
\* the caller's condition.  The surface may fail with another error in any
\* poll.
Poll(o) ==
    IF op \in PresenceOps
    THEN \/ o = [k |-> "value", v |-> "WebElement"] /\ surface # "absent"
         \/ o = [k |-> "raise", v |-> "NoSuchElementException"] /\ surface = "absent"
         \/ o = [k |-> "raise", v |-> "WebDriverException"]
    ELSE IF op \in ClickableOps
    THEN \/ o = [k |-> "value", v |-> "WebElement"] /\ surface = "clickable"
         \/ o = [k |-> "value", v |-> "False"] /\ surface = "present"
         \/ o = [k |-> "raise", v |-> "NoSuchElementException"] /\ surface = "absent"
         \/ o = [k |-> "raise", v |-> "WebDriverException"]
    ELSE o.v # "WebElement"

\* what a call on the located element (click, clear, send_keys, text,
\* is_enabled) may do: succeed (is_enabled: report True or False) or raise
ElementOutcomes == {"True", "False", "raise"}

\* BasePage.find_element: return self.wait.until(EC.presence_of_element_located(locator))
find_element(u) == [r |-> u, a |-> <<>>]

\* BasePage.find_clickable: return self.wait.until(EC.element_to_be_clickable(locator))
find_clickable(u) == [r |-> u, a |-> <<>>]

\* mutant: the click is sent whether or not the wait found the element
click_WithoutWaiting(u, e) ==
    [r |-> IF u.k = "return" THEN [k |-> "return", v |-> "None"] ELSE u,
     a |-> <<"click">>]

\* BasePage.click: self.find_clickable(locator).click()
click(u, e) ==
    IF u.k # "return" THEN [r |-> u, a |-> <<>>]
    ELSE IF e = "raise"
    THEN [r |-> [k |-> "raise", v |-> "WebDriverException"], a |-> <<"click">>]
    ELSE [r |-> [k |-> "return", v |-> "None"], a |-> <<"click">>]

\* BasePage.send_keys: element = self.find_element(locator); element.clear();
\* element.send_keys(text)
send_keys(u, e) ==
    IF u.k # "return" THEN [r |-> u, a |-> <<>>]
    ELSE IF e = "raise"
    THEN [r |-> [k |-> "raise", v |-> "WebDriverException"], a |-> <<"clear">>]
    ELSE [r |-> [k |-> "return", v |-> "None"], a |-> <<"clear", "send_keys">>]

\* BasePage.get_text: return self.find_element(locator).text
get_text(u, e) ==
    IF u.k # "return" THEN [r |-> u, a |-> <<>>]
    ELSE IF e = "raise"
    THEN [r |-> [k |-> "raise", v |-> "WebDriverException"], a |-> <<"text">>]
    ELSE [r |-> [k |-> "return", v |-> "'text'"], a |-> <<"text">>]

\* mutant: only the timeout error is turned into False
is_search_button_enabled_TimeoutOnly(u, e) ==
    IF u.k # "return"
    THEN [r |-> IF u.v = "TimeoutException" THEN [k |-> "return", v |-> "False"] ELSE u,
          a |-> <<>>]
    ELSE IF e = "raise"
    THEN [r |-> [k |-> "raise", v |-> "WebDriverException"], a |-> <<"is_enabled">>]
    ELSE [r |-> [k |-> "return", v |-> e], a |-> <<"is_enabled">>]

\* MainPage.is_search_button_enabled:
\* try: return self.find_clickable(self.SEARCH_BUTTON).is_enabled()
\* except: return False
is_search_button_enabled(u, e) ==
    IF u.k # "return" THEN [r |-> [k |-> "return", v |-> "False"], a |-> <<>>]
    ELSE IF e = "raise"
    THEN [r |-> [k |-> "return", v |-> "False"], a |-> <<"is_enabled">>]
    ELSE [r |-> [k |-> "return", v |-> e], a |-> <<"is_enabled">>]

\* what the called operation makes of until()'s result u; e is the outcome of
\* the call it then makes on the element
Resolve(u, e) ==
    CASE op = "is_element_present" -> [r |-> is_element_present(u), a |-> <<>>]
      [] op = "wait_for_result" -> [r |-> wait_for_result(u), a |-> <<>>]
      [] op = "find_element" -> find_element(u)
      [] op = "find_clickable" -> find_clickable(u)
      [] op = "click" -> click(u, e)
      [] op = "send_keys" -> send_keys(u, e)
      [] op = "get_text" -> get_text(u, e)
      [] OTHER -> is_search_button_enabled(u, e)

\* a call of an operation that waits with self.wait: the timeout is
\* Config.EXPLICIT_WAIT, whatever the configuration sets it to
CallSelfWait(o) ==
    /\ pc = "idle"
    /\ \E to \in TimeoutVals :
         /\ timeout' = to
         /\ end_time' = EndTime(now, to)
    /\ \E s \in Surfaces : surface' = s
    /\ op' = o
    /\ pc' = "polling"
    /\ UNCHANGED <<now, polls, sleeps, acts, elem, waitResult>>
    /\ UNCHANGED <<reqVars, extractVars, testVars>>

Call_find_element == CallSelfWait("find_element")
Call_find_clickable == CallSelfWait("find_clickable")
Call_click == CallSelfWait("click")
Call_send_keys == CallSelfWait("send_keys")
Call_get_text == CallSelfWait("get_text")
Call_is_search_button_enabled == CallSelfWait("is_search_button_enabled")

Call_is_element_present ==
    /\ pc = "idle"
    /\ \E to \in TimeoutVals :
         /\ timeout' = to
         /\ end_time' = EndTime(now, to)
    /\ \E s \in Surfaces : surface' = s
    /\ op' = "is_element_present"
    /\ pc' = "polling"
    /\ UNCHANGED <<now, polls, sleeps, acts, elem, waitResult>>
    /\ UNCHANGED <<reqVars, extractVars, testVars>>

Call_wait_for_result ==
    /\ pc = "idle"
    /\ \E to \in TimeoutVals :
         /\ timeout' = to
         /\ end_time' = EndTime(now, to)
    /\ op' = "wait_for_result"
    /\ pc' = "polling"
    /\ UNCHANGED <<now, surface, polls, sleeps, acts, elem, waitResult>>
    /\ UNCHANGED <<reqVars, extractVars, testVars>>

\* one pass of until()'s loop, and the caller's handling of what until()
\* gives.  The poll takes d ticks: one for a plain evaluation, more when the
\* poll itself blocks (the driver's implicit wait inside find_element, or a
\* condition that performs a wait of its own).
PollOnce ==
    /\ pc = "polling"
    /\ \E o \in PollOutcomes, d \in 1..MaxPollDur :
         /\ Poll(o)
         /\ polls' = Append(polls, o)
         /\ LET u == Until(o, now + d) IN
            IF u.k = "sleep"
            THEN /\ now' = now + d + PollInterval
                 /\ sleeps' = sleeps + 1
                 /\ UNCHANGED <<pc, acts, elem, waitResult>>
            ELSE /\ now' = now + d
                 /\ sleeps' = sleeps
                 /\ pc' = "done"
                 /\ \E e \in ElementOutcomes :
                      /\ waitResult' = Resolve(u, e).r
                      /\ acts' = Resolve(u, e).a
                      /\ elem' = IF Resolve(u, e).a = <<>> THEN "none" ELSE e
    /\ UNCHANGED <<op, timeout, end_time, surface>>
    /\ UNCHANGED <<reqVars, extractVars, testVars>>

\* the page changes while the test waits
SurfaceChange ==
    /\ pc = "polling"
    /\ op \in PresenceOps \cup ClickableOps
    /\ \E s \in Surfaces \ {surface} : surface' = s
    /\ UNCHANGED <<pc, op, timeout, end_time, now, polls, sleeps, acts, elem,
                   waitResult>>
    /\ UNCHANGED <<reqVars, extractVars, testVars>>

(***************************************************************************)
(* SuggestApiClient.extract_city_names and extract_iata_codes              *)
(***************************************************************************)
\* an item of the places response; "None" is what item.get gives for a key
\* the item lacks, "''" is the empty string
ItemTypes == {"city", "airport", "None"}
ItemNames == {"None", "''", "Sochi", "Adler"}
ItemCityNames == {"None", "''", "Adler"}
ItemCodes == {"None", "''", "AER", "SVO"}
\* the items with every combination of type, name and city_name and no code,
\* and those with every combination of type and code and at most a name
Items ==
    {item \in [type : ItemTypes, name : ItemNames, city_name : ItemCityNames,
               code : ItemCodes] :
        \/ item.code = "None"
        \/ (item.city_name = "None" /\ item.name \in {"None", "Sochi"})}
ResponseJsons == UNION {[1..n -> Items] : n \in 0..MaxItems}

\* Python's truth value of a string or None
Truthy(v) == v \notin {"None", "''"}
\* Python's a or b
Or(a, b) == IF Truthy(a) THEN a ELSE b

\* mutant: no fallback to city_name
CityName_NameOnly(item) == item.name
\* city_name = item.get("name") or item.get("city_name")
CityName(item) == Or(item.name, item.city_name)

\* item.get("type") == "city"
IsCity(item) == item.type = "city"

\* the set cities after the loop over the items
extract_city_names(rj) ==
    {CityName(rj[i]) :
        i \in {j \in 1..Len(rj) : IsCity(rj[j]) /\ Truthy(CityName(rj[j]))}}

\* list(s): the elements of the set s, each once, in an order Python chooses
List(s) == {l \in [1..Cardinality(s) -> s] : {l[i] : i \in DOMAIN l} = s}

Call_extract_city_names ==
    /\ pc = "idle"
    /\ pc' = "done"
    /\ op' = "extract_city_names"
    /\ cities' \in List(extract_city_names(response_json))
    /\ UNCHANGED <<response_json, codes>>
    /\ UNCHANGED <<reqVars, waitVars, testVars>>

\* mutant: the code of an item of any type is taken
HasAirportCode_AnyType(item) == Truthy(item.code)
\* if item.get("type") == "airport" and item.get("code")
HasAirportCode(item) == item.type = "airport" /\ Truthy(item.code)

\* the list codes after the loop over the items: item["code"] of every item
\* that passes the test, appended in the order of the items
extract_iata_codes(rj) ==
    LET taken == SelectSeq(rj, HasAirportCode)
    IN  [i \in 1..Len(taken) |-> taken[i].code]

Call_extract_iata_codes ==
    /\ pc = "idle"
    /\ pc' = "done"
    /\ op' = "extract_iata_codes"
    /\ codes' = extract_iata_codes(response_json)
    /\ UNCHANGED <<response_json, cities>>
    /\ UNCHANGED <<reqVars, waitVars, testVars>>

(***************************************************************************)
(* FlightSearchApiClient.search_flights and test_flight_search_past_date   *)
(* in its two variants, src/tests/api_tests.py and src/test/api_tests.py   *)
(***************************************************************************)
\* what the flight search collaborator may answer to a past departure date
FlightResponses ==
    {[status |-> 400, body |-> "<html>"],
     [status |-> 404, body |-> "Oshibka"],
     [status |-> 200, body |-> "<html>"],
     [status |-> 200, body |-> "{\"a\":1}"],
     [status |-> 200, body |-> NoTickets],
     [status |-> 200, body |-> Tickets400],
     [status |-> 200, body |-> Tickets99]}

\* response = self._request("POST", "", json=payload) with the default retry
Call_search_flights ==
    CallRequest("search_flights", {FlightSearchApiClient}, {<<>>}, {NoHeaders},
                {RETRY_COUNT})
AttemptResponse_flight == AttemptResponseOf(FlightResponses)

\* an integer formatted into an f-string
IntText(n) ==
    CASE n = 3 -> "3"
      [] n = 200 -> "200"
      [] n = 400 -> "400"
      [] n = 404 -> "404"
      [] OTHER -> "0"

\* str(e) of the AssertionError search_flights raised, as the pieces of its
\* f-string: _request's after the last attempt, or wait_for_ok's (the
\* messages are Russian in the source and transliterated here)
StrOfError ==
    IF result.kind = "RequestFailed"
    THEN <<"Zapros ne udalsya posle ", IntText(result.attempts), " popytok: ",
           result.cause>>
    ELSE <<"Ozhidalsya kod 200, poluchen ", IntText(okResult.status), ": ",
           okResult.body>>

\* "400" in t, for the texts of the model
Has400(t) == t \in {"400", "[{\"price\":400}]", Tickets400}
\* "ошибка" in t.lower(), for the texts of the model
HasErrorWord(t) == t \in {"Oshibka", "Neozhidannaya oshibka: "}

\* "400" in str(e) or "ошибка" in str(e).lower()
Accepted(msg) == \E i \in DOMAIN msg : Has400(msg[i]) \/ HasErrorWord(msg[i])

\* "data" in response
InJson(k, json) == \E i \in DOMAIN json.keys : json.keys[i] = k
\* response.get("data", []) as JSON text
GetData(json) ==
    IF InJson("data", json)
    THEN json.vals[CHOOSE i \in DOMAIN json.keys : json.keys[i] = "data"]
    ELSE "[]"
\* len() of a list given as JSON text
JsonLen(t) == IF t = "[]" THEN 0 ELSE 1

\* the two assertions on the decoded answer: <<>> when both hold, else the
\* message of the one that failed
DataCheck(json) ==
    IF ~InJson("data", json) THEN <<"Otsutstvuet pole data v otvete">>
    ELSE IF JsonLen(GetData(json)) # 0
    THEN <<"Naydeny bilety s proshedshey datoy: ", GetData(json)>>
    ELSE <<>>

\* except AssertionError as e: assert "400" in str(e) or "ошибка" in ...
ExceptAssertionError(v, msg) ==
    IF Accepted(msg)
    THEN [variant |-> v, outcome |-> "passed", message |-> <<>>]
    ELSE [variant |-> v, outcome |-> "failed",
          message |-> <<"Neozhidannaya oshibka: ">> \o msg]

\* search_flights has raised an AssertionError
SearchAsserted == result.kind = "RequestFailed" \/ okResult.kind = "AssertionError"
\* search_flights is over
SearchDone == pc = "done" /\ op = "search_flights" /\ verdict = NoVerdict

\* src/tests/api_tests.py: only the search is inside the try block
test_flight_search_past_date ==
    IF SearchAsserted THEN ExceptAssertionError("tests", StrOfError)
    ELSE IF okResult.kind = "JSONDecodeError"
    THEN [variant |-> "tests", outcome |-> "error", message |-> <<"JSONDecodeError">>]
    ELSE IF DataCheck(okResult.json) # <<>>
    THEN [variant |-> "tests", outcome |-> "failed", message |-> DataCheck(okResult.json)]
    ELSE [variant |-> "tests", outcome |-> "passed", message |-> <<>>]

\* src/test/api_tests.py: the two assertions on the answer are inside the
\* try block too, so the except clause catches their AssertionError
test_flight_search_past_date_InsideTry ==
    IF SearchAsserted THEN ExceptAssertionError("test", StrOfError)
    ELSE IF okResult.kind = "JSONDecodeError"
    THEN [variant |-> "test", outcome |-> "error", message |-> <<"JSONDecodeError">>]
    ELSE IF DataCheck(okResult.json) # <<>>
    THEN ExceptAssertionError("test", DataCheck(okResult.json))
    ELSE [variant |-> "test", outcome |-> "passed", message |-> <<>>]

Run_test_flight_search_past_date ==
    /\ SearchDone
    /\ verdict' = test_flight_search_past_date
    /\ UNCHANGED <<pc, op, reqVars, waitVars, extractVars, fixture, drivers>>

Run_test_flight_search_past_date_InsideTry ==
    /\ SearchDone
    /\ verdict' = test_flight_search_past_date_InsideTry
    /\ UNCHANGED <<pc, op, reqVars, waitVars, extractVars, fixture, drivers>>

(***************************************************************************)
(* The driver fixture (scope="function") of src/test/config.py and         *)
(* src/test/conf_test.py.  pytest runs the generator up to its yield before *)
(* the test and resumes it after the test, passed or failed; a generator    *)
(* that raises before its yield is not resumed.                             *)
(***************************************************************************)
\* values of Config.BROWSER
Browsers == {"chrome", "firefox", "edge"}
\* if browser == "chrome": ... elif browser == "firefox": ...
Supported(b) == b \in {"chrome", "firefox"}

\* a test requests the fixture: the driver of browser b is created, or its
\* constructor raises, or the browser is not supported
Create(b) ==
    /\ fixture.stage \in {"idle", "done", "error"}
    /\ fixture.tests < MaxTests
    /\ IF ~Supported(b)
       THEN /\ fixture' = [stage |-> "error", tests |-> fixture.tests + 1,
                           browser |-> b, created |-> FALSE,
                           raised |-> "ValueError", test |-> "none"]
            /\ drivers' = drivers
       ELSE \/ /\ fixture' = [stage |-> "created", tests |-> fixture.tests + 1,
                              browser |-> b, created |-> TRUE,
                              raised |-> "none", test |-> "none"]
               /\ drivers' = Append(drivers, [browser |-> b, configured |-> "no",
                                            quits |-> 0])
            \/ /\ fixture' = [stage |-> "error", tests |-> fixture.tests + 1,
                              browser |-> b, created |-> FALSE,
                              raised |-> "WebDriverException", test |-> "none"]
               /\ drivers' = drivers
    /\ UNCHANGED <<pc, op, reqVars, waitVars, extractVars, verdict>>

\* src/test/config.py: browser = Config.BROWSER
driver_create == \E b \in Browsers : Create(b)
\* src/test/conf_test.py: always Chrome
driver_create_chrome == Create("chrome")

\* driver.implicitly_wait(...), then yield driver; when it raises, the
\* generator ends before its yield
driver_implicitly_wait ==
    /\ fixture.stage = "created"
    /\ \/ /\ fixture' = [fixture EXCEPT !.stage = "yielded"]
          /\ drivers' = [drivers EXCEPT ![Len(drivers)].configured = "yes"]
       \/ /\ fixture' = [fixture EXCEPT !.stage = "error",
                                        !.raised = "WebDriverException"]
          /\ drivers' = [drivers EXCEPT ![Len(drivers)].configured = "raised"]
    /\ UNCHANGED <<pc, op, reqVars, waitVars, extractVars, verdict>>

\* the test that requested the fixture runs and passes or fails
test_run ==
    /\ fixture.stage = "yielded"
    /\ \E t \in {"passed", "failed"} :
         fixture' = [fixture EXCEPT !.stage = "test_over", !.test = t]
    /\ UNCHANGED <<pc, op, reqVars, waitVars, extractVars, verdict, drivers>>

\* after the yield: driver.quit()
driver_quit ==
    /\ fixture.stage = "test_over"
    /\ fixture' = [fixture EXCEPT !.stage = "done"]
    /\ drivers' = [drivers EXCEPT ![Len(drivers)].quits = @ + 1]
    /\ UNCHANGED <<pc, op, reqVars, waitVars, extractVars, verdict>>

Next ==
    \/ Call_request
    \/ AttemptFault
    \/ AttemptResponse
    \/ LoopExhausted
    \/ Call_wait_for_ok
    \/ Call_is_element_present
    \/ Call_wait_for_result
    \/ Call_find_element
    \/ Call_find_clickable
    \/ Call_click
    \/ Call_send_keys
    \/ Call_get_text
    \/ Call_is_search_button_enabled
    \/ PollOnce
    \/ SurfaceChange

Spec == Init /\ [][Next]_vars

\* the driver fixture over the tests of a session
NextFixture ==
    \/ driver_create
    \/ driver_create_chrome
    \/ driver_implicitly_wait
    \/ test_run
    \/ driver_quit

SpecFixture == Init /\ [][NextFixture]_vars

\* the past-date flight search scenario
NextFlight ==
    \/ Call_search_flights
    \/ AttemptFault
    \/ AttemptResponse_flight
    \/ Call_wait_for_ok
    \/ Run_test_flight_search_past_date
    \/ Run_test_flight_search_past_date_InsideTry

SpecFlight == Init /\ [][NextFlight]_vars

\* the extraction functions applied to every places response
InitExtract ==
    /\ InitHarness
    /\ response_json \in ResponseJsons

NextExtract ==
    \/ Call_extract_city_names
    \/ Call_extract_iata_codes

SpecExtract == InitExtract /\ [][NextExtract]_vars

\* the request client called with every kind of url, headers and client
NextDescriptor ==
    \/ Call_request_any
    \/ AttemptFault
    \/ AttemptResponse_few
    \/ LoopExhausted
    \/ Call_wait_for_ok

SpecDescriptor == Init /\ [][NextDescriptor]_vars

(***************************************************************************)
(* Properties of the request client                                        *)
(***************************************************************************)
\* every transport call made so far raised
AllFaults == \A i \in 1..Len(log) : log[i].t = "fault"
\* the attempt at which the transport first returned a response, 0 if none
FirstRespAt ==
    IF \E i \in 1..Len(log) : log[i].t = "resp"
    THEN CHOOSE i \in 1..Len(log) :
           /\ log[i].t = "resp"
           /\ \A j \in 1..(i - 1) : log[j].t = "fault"
    ELSE 0
\* the attempts of which the sink holds an attachment
RecordedAttempts == {attached[i][1] : i \in 1..Len(attached)}

\* C1: with a retry budget n >= 1 and a transport that raises on every call,
\* _request makes exactly n transport calls and only then raises the
\* request-failed error; before the n-th call has failed nothing is raised.
C1_ExactlyNAttemptsThenFail ==
    (op = "_request" /\ retry >= 1 /\ AllFaults) =>
        /\ calls = Len(log)
        /\ calls <= retry
        /\ (calls < retry => (result = NoResult /\ pc = "_request"))
        /\ (calls = retry => (result.kind = "RequestFailed" /\ pc = "done"))

C1_Witness ==
    /\ op = "_request"
    /\ retry = RETRY_COUNT
    /\ AllFaults
    /\ calls = RETRY_COUNT
    /\ result.kind = "RequestFailed"

\* C2: when the transport raises on its first k calls (0 <= k < retry) and
\* then returns a response, _request returns exactly that response after
\* exactly k+1 transport calls and raises nothing.
C2_FaultsThenResponseIsReturned ==
    (op = "_request" /\ pc \in {"returned", "done"} /\ FirstRespAt # 0) =>
        /\ calls = FirstRespAt
        /\ result = Returned(firstResp)

\* C3: a response the transport returns without raising is returned after
\* that attempt whatever its status code and no further transport call is
\* made: with retry budget 3 and a transport answering 400, exactly one call
\* is made and the 400 response is returned unchanged.
C3_ErrorStatusIsReturnedWithoutRetry ==
    (/\ op = "_request"
     /\ retry = RETRY_COUNT
     /\ Len(log) >= 1
     /\ log[1].t = "resp"
     /\ firstResp.status = 400) =>
        /\ calls = 1
        /\ result.kind = "response"
        /\ result.resp = firstResp

\* C4 (as stated): wait_for_ok returns the decoded JSON body if and only if
\* the status code is 200; for every other status code it raises an error
\* carrying the observed status code and the response body.
C4_ReturnsIffStatus200 ==
    okResult.kind # "none" =>
        /\ (okResult.kind = "return" <=> result.resp.status = 200)
        /\ (okResult.kind = "return" => okResult.json = JsonDecode(result.resp.body))
        /\ (result.resp.status # 200 =>
              /\ okResult.kind = "AssertionError"
              /\ okResult.status = result.resp.status
              /\ okResult.body = result.resp.body)

\* C4 (amended): wait_for_ok returns the decoded JSON body if and only if the
\* status code is 200 and the body is decodable JSON; with status 200 and a
\* body that is not JSON it raises the decoder's error; for every other
\* status code it raises an error carrying the observed status code and the
\* response body.
C4_ReturnsIffStatus200AndDecodable ==
    okResult.kind # "none" =>
        /\ (okResult.kind = "return" <=>
              (result.resp.status = 200 /\ JsonDecodable(result.resp.body)))
        /\ (okResult.kind = "return" => okResult.json = JsonDecode(result.resp.body))
        /\ ((result.resp.status = 200 /\ ~JsonDecodable(result.resp.body)) =>
              okResult.kind = "JSONDecodeError")
        /\ (result.resp.status # 200 =>
              /\ okResult.kind = "AssertionError"
              /\ okResult.status = result.resp.status
              /\ okResult.body = result.resp.body)

C4_Witness ==
    /\ okResult.kind = "AssertionError"
    /\ result.resp.status = 404
    /\ okResult.status = 404
    /\ okResult.body = "<html>"

\* C5: a failure of the sink after a successful transport call neither
\* causes another transport call nor turns the call into a request-failed
\* error.
C5_SinkFailureLeavesControlFlowAlone ==
    \A i \in 1..Len(log) :
        (log[i].t = "resp" /\ log[i].sink # "ok") =>
            /\ calls = i
            /\ result.kind # "RequestFailed"

\* C6: after any call of _request the number of attempts recorded to the
\* sink equals the number of transport calls made, attempts that ended in a
\* transport fault included.
C6_EveryAttemptIsRecorded ==
    (op = "_request" /\ pc \in {"returned", "done"}) =>
        Cardinality(RecordedAttempts) = calls

\* C7: when _request fails because all retry attempts faulted, the error it
\* raises carries the number of attempts made and the cause of the final
\* attempt's fault.
C7_FailureCarriesCountAndLastCause ==
    (result.kind = "RequestFailed" /\ AllFaults) =>
        /\ calls = Len(log)
        /\ result.attempts = calls
        /\ result.cause = log[Len(log)].cause

C7_Witness ==
    /\ result.kind = "RequestFailed"
    /\ AllFaults
    /\ calls = 2
    /\ log[1].cause = "ConnectionError"
    /\ log[2].cause = "Timeout"
    /\ result.cause = "Timeout"
    /\ result.attempts = 2

(***************************************************************************)
(* Properties of the wait engine                                           *)
(***************************************************************************)
WaitOps == {"is_element_present", "wait_for_result"}
\* a poll that produced a value Python takes for true
TruthyPoll(o) == o.k = "value" /\ o.v \in {"'a'", "'b'", "WebElement"}
\* a poll that produced a false value or did not find the element
FalsyPoll(o) ==
    \/ o.k = "value" /\ o.v \in {"None", "False", "0", "[]"}
    \/ o.k = "raise" /\ o.v = "NoSuchElementException"

\* C8: is_element_present never raises: whatever the surface does (element
\* found, never found, or an error other than not-found during a poll) it
\* resolves to True or False, True once a poll locates the element and False
\* when the deadline passes without it.
C8_IsElementPresentNeverRaises ==
    (op = "is_element_present" /\ pc = "done") =>
        /\ waitResult.k = "return"
        /\ waitResult.v \in {"True", "False"}
        /\ (waitResult.v = "True" <=> TruthyPoll(polls[Len(polls)]))

LastPoll == polls[Len(polls)]

\* C11: a wait's deadline is not extended by nested waits: also when the
\* condition given to wait_for_result itself waits inside a poll, the outer
\* wait resolves no later than its deadline plus one poll step (the sleep
\* between two polls and one plain evaluation of the condition).
C11_NestedWaitDoesNotDelayResolution ==
    (op = "wait_for_result" /\ pc = "done" /\ timeout >= 0) =>
        now <= end_time + PollInterval + 1

\* C12: timeout is the only error the wait layer produces: find_element,
\* find_clickable and wait_for_result either return a value or raise the
\* timeout error, whatever the surface or the condition does.
C12_TimeoutIsTheOnlyError ==
    (op \in {"find_element", "find_clickable", "wait_for_result"} /\ pc = "done") =>
        \/ waitResult.k = "return"
        \/ waitResult = [k |-> "raise", v |-> "TimeoutException"]

\* C13: click acts on the element only after a poll observed it clickable,
\* send_keys and get_text only after a poll observed it present; when the
\* readiness wait did not find the element ready (it timed out or failed)
\* nothing is done to the surface.
C13_ActOnlyAfterReadiness ==
    op \in {"click", "send_keys", "get_text"} =>
        /\ (acts # <<>>) =>
              /\ pc = "done"
              /\ Len(polls) >= 1
              /\ LastPoll = [k |-> "value", v |-> "WebElement"]
              /\ (op = "click" => surface = "clickable")
              /\ (op # "click" => surface # "absent")
        /\ (pc = "done" /\ LastPoll # [k |-> "value", v |-> "WebElement"]) =>
              acts = <<>>
        /\ (pc = "done" /\ waitResult = [k |-> "raise", v |-> "TimeoutException"]) =>
              acts = <<>>
        /\ (pc = "polling" => acts = <<>>)

C13_Witness ==
    /\ op = "click"
    /\ pc = "done"
    /\ Len(polls) = 2
    /\ polls[1] = [k |-> "value", v |-> "False"]
    /\ polls[2] = [k |-> "value", v |-> "WebElement"]
    /\ acts = <<"click">>
    /\ waitResult = [k |-> "return", v |-> "None"]

\* C20: is_search_button_enabled never raises: it returns True only if a poll
\* within the explicit wait observed the search button clickable and the
\* button then reported enabled, and False for every failure of the wait or
\* of the surface; so a button that is not clickable during the wait gives
\* False and a clickable button that reports enabled gives True.
C20_SearchButtonEnabledNeverRaises ==
    (op = "is_search_button_enabled" /\ pc = "done") =>
        /\ waitResult.k = "return"
        /\ waitResult.v \in {"True", "False"}
        /\ (waitResult.v = "True" <=>
              /\ LastPoll = [k |-> "value", v |-> "WebElement"]
              /\ surface = "clickable"
              /\ acts = <<"is_enabled">>
              /\ elem = "True")
        /\ (LastPoll # [k |-> "value", v |-> "WebElement"] =>
              (waitResult.v = "False" /\ acts = <<>>))

C20_Witness ==
    /\ op = "is_search_button_enabled"
    /\ pc = "done"
    /\ LastPoll = [k |-> "raise", v |-> "WebDriverException"]
    /\ waitResult = [k |-> "return", v |-> "False"]

(***************************************************************************)
(* Properties of the request a call sends                                  *)
(***************************************************************************)
\* the Authorization entries among the header pairs hs
Authorization(hs) == {p \in hs : p[1] = "Authorization"}
\* the Authorization entry the client makes of its token
TokenHeader == <<"Authorization", <<"Token", client.token>>>>
\* the urls of Urls that are absolute: they have a scheme and a host
AbsoluteUrl(u) == u = <<"http", "s://other.example/x">>

\* C14 (as stated): a client constructed with a token sends that token in the
\* Authorization header of every request, also of requests that pass their
\* own headers; a client constructed without a token adds no Authorization
\* header to any request.
C14_TokenOnEveryRequest ==
    \A r \in sent :
        /\ (client.token \notin {"None", "''"} => TokenHeader \in r.headers)
        /\ (client.token \in {"None", "''"} =>
              Authorization(r.headers) \subseteq call.headers.items)

\* C14 (amended): a client constructed with a non-empty token sends that
\* token in the Authorization header of every request whose own headers hold
\* no Authorization entry; an Authorization entry among the call's own
\* headers takes its place (and removes the header when its value is None);
\* a client constructed without a token (None or empty) adds no
\* Authorization header to any request.
C14_TokenUnlessCallOverrides ==
    \A r \in sent :
        IF Authorization(call.headers.items) # {}
        THEN Authorization(r.headers) =
                 {q \in Authorization(call.headers.items) : q[2] # <<"None">>}
        ELSE IF client.token \notin {"None", "''"}
        THEN Authorization(r.headers) = {TokenHeader}
        ELSE Authorization(r.headers) = {}

C14_Witness ==
    /\ client.token = TOKEN
    /\ calls = 2
    /\ call.headers = [given |-> TRUE, items |-> {<<"Accept", <<"application/json">>>>}]
    /\ sent = {[url |-> FLIGHT_API_URL \o <<"/v2">>,
                headers |-> {<<"Accept", <<"application/json">>>>,
                             <<"Authorization", <<"Token", TOKEN>>>>}]}

\* C15: _request sends to the given url unchanged when it is absolute and
\* otherwise to the base URL with the path appended; every attempt of one
\* call goes to the same resolved URL.
C15_UrlResolvedAgainstBase ==
    /\ \A r \in sent :
          r.url = IF AbsoluteUrl(call.url) THEN call.url
                  ELSE client.base_url \o call.url
    /\ Cardinality({r.url : r \in sent}) <= 1

\* C19: with a retry budget <= 0 _request makes no transport call and raises
\* the generic failure of the line after the loop, which carries no attempt
\* count and no cause; with a budget >= 1 that raise is never reached.
C19_GenericFailureOnlyWithoutBudget ==
    op = "_request" =>
        /\ (retry <= 0 => (calls = 0 /\ sent = {} /\ result.kind \in {"none", "GenericFailure"}))
        /\ ((retry <= 0 /\ pc = "done") =>
              (result = GenericFailure /\ result.attempts = 0 /\ result.cause = ""))
        /\ (result.kind = "GenericFailure" => retry <= 0)
        /\ ((retry >= 1 /\ pc = "_request") => attempt < retry)

C19_Witness ==
    /\ op = "_request"
    /\ retry = 0 - 1
    /\ pc = "done"
    /\ calls = 0
    /\ result = GenericFailure

(***************************************************************************)
(* Properties of the extraction functions                                  *)
(***************************************************************************)
\* the names in the list returned
Returned_cities == {cities[i] : i \in DOMAIN cities}
\* the city items of the response
CityItems == {i \in DOMAIN response_json : response_json[i].type = "city"}
NonEmpty(v) == v # "None" /\ v # "''"

\* C16: extract_city_names returns exactly the names of the items of type
\* "city" that have a non-empty name, taking city_name when name is missing
\* or empty, each name once and none from an item of another type.
C16_ExactlyTheCityNames ==
    op = "extract_city_names" =>
        /\ \A i \in CityItems :
              /\ (NonEmpty(response_json[i].name) =>
                    response_json[i].name \in Returned_cities)
              /\ ((~NonEmpty(response_json[i].name)
                   /\ NonEmpty(response_json[i].city_name)) =>
                    response_json[i].city_name \in Returned_cities)
        /\ \A n \in Returned_cities :
              /\ NonEmpty(n)
              /\ \E i \in CityItems :
                    \/ response_json[i].name = n
                    \/ (~NonEmpty(response_json[i].name)
                        /\ response_json[i].city_name = n)
        /\ Len(cities) = Cardinality(Returned_cities)

C16_Witness ==
    /\ op = "extract_city_names"
    /\ response_json = <<[type |-> "city", name |-> "Sochi", city_name |-> "None",
                          code |-> "None"],
                         [type |-> "city", name |-> "''", city_name |-> "Adler",
                          code |-> "None"]>>
    /\ cities = <<"Adler", "Sochi">>

\* the airport items of the response that have a non-empty code
AirportItems ==
    {i \in DOMAIN response_json :
        response_json[i].type = "airport" /\ NonEmpty(response_json[i].code)}
\* the k-th of them in response order
AirportItem(k) ==
    CHOOSE i \in AirportItems : Cardinality({j \in AirportItems : j <= i}) = k

\* C21: extract_iata_codes returns, in response order and keeping
\* duplicates, exactly the codes of the items of type "airport" whose code is
\* non-empty; items of other types or without a code contribute nothing.
C21_AirportCodesInOrder ==
    op = "extract_iata_codes" =>
        /\ Len(codes) = Cardinality(AirportItems)
        /\ \A k \in 1..Len(codes) : codes[k] = response_json[AirportItem(k)].code

C21_Witness ==
    /\ op = "extract_iata_codes"
    /\ response_json = <<[type |-> "airport", name |-> "Sochi", city_name |-> "None",
                          code |-> "AER"],
                         [type |-> "airport", name |-> "None", city_name |-> "None",
                          code |-> "AER"]>>
    /\ codes = <<"AER", "AER">>

(***************************************************************************)
(* Properties of the past-date flight search scenario                      *)
(***************************************************************************)
\* the answer of the collaborator and what it holds
Answer == firstResp
HasData == Answer.body \in {NoTickets, Tickets400, Tickets99}
EmptyData == Answer.body = NoTickets
DataCheckMessages == {"Otsutstvuet pole data v otvete",
                      "Naydeny bilety s proshedshey datoy: "}

\* C17: in the past-date scenario a 400 answer is accepted: search_flights
\* raises an error mentioning "400" after the single attempt that got the
\* answer (the 400 is not retried) and the test passes; a 200 answer passes only with an empty "data" field, and a 200
\* answer without "data" or with non-empty "data" fails by the data check
\* (its message is in the report; an answer that is not JSON is left aside).
C17_PastDateScenario ==
    verdict # NoVerdict =>
        /\ (Answer.status = 400 =>
              /\ calls = FirstRespAt
              /\ SearchAsserted
              /\ \E i \in DOMAIN StrOfError : StrOfError[i] = "400"
              /\ verdict.outcome = "passed")
        /\ ((Answer.status = 200 /\ verdict.outcome = "passed") =>
              (HasData /\ EmptyData))
        /\ ((Answer.status = 200 /\ JsonDecodable(Answer.body)
               /\ ~(HasData /\ EmptyData)) =>
              /\ verdict.outcome = "failed"
              /\ \E i \in DOMAIN verdict.message :
                    verdict.message[i] \in DataCheckMessages)

\* C17 restricted to the runs in which the report sink never fails: the
\* scenario as stated, without the retries a failing attachment causes
C17_WithoutSinkFailure ==
    (\A i \in DOMAIN log : log[i].sink # "fail1" /\ log[i].sink # "fail2")
        => C17_PastDateScenario

(***************************************************************************)
(* Properties of the driver fixture                                        *)
(***************************************************************************)
\* the fixture is over for the test that requested it
FixtureOver == fixture.stage \in {"done", "error"}

\* C18: every driver the fixture creates is quit exactly once when the
\* fixture is over, whether the test passed or failed and also when
\* implicitly_wait failed after the creation; for an unsupported browser the
\* fixture raises without creating a driver.
C18_EveryDriverQuitOnce ==
    /\ \A i \in DOMAIN drivers : drivers[i].quits <= 1
    /\ FixtureOver => \A i \in DOMAIN drivers : drivers[i].quits = 1
    /\ (FixtureOver /\ fixture.browser \notin {"chrome", "firefox"}) =>
          (fixture.raised = "ValueError" /\ ~fixture.created)

\* C18 restricted to the drivers whose implicitly_wait did not raise
C18_WhenConfiguringSucceeds ==
    /\ \A i \in DOMAIN drivers : drivers[i].quits <= 1
    /\ FixtureOver =>
          \A i \in DOMAIN drivers :
              drivers[i].configured # "raised" => drivers[i].quits = 1
    /\ (FixtureOver /\ fixture.browser \notin {"chrome", "firefox"}) =>
          (fixture.raised = "ValueError" /\ ~fixture.created)
====
